---- MODULE Spec2Model ----
(***************************************************************************)
(* A model of cmd_logger.py: the RotatingWriter (active file, rotation,    *)
(* background finalize threads), the ingestion loop, the HTTP control      *)
(* plane (rotate_now, apply_config), the interval timer thread and the     *)
(* IdleMonitor, over a small POSIX file system (directory entries, inodes, *)
(* open handles).  The writer takes no lock, so every thread that calls    *)
(* rotate(), begin_line() or write_line() is interleaved with the others   *)
(* at the granularity of the statements that read or write shared fields.  *)
(***************************************************************************)
EXTENDS Integers, Sequences, FiniteSets, TLC

\* ------------------------------------------------------------------ bounds
MaxLines == 2          \* lines of the source stream (Spec, SpecIdle)
MaxReq == 1            \* control events: HTTP requests served and interval expiries
MaxAlerts == 2         \* idle-timer callbacks started
TicksPerSec == 2       \* clock resolution: ticks per second
MaxConn == 1           \* /stream connections
MaxQueue == 1          \* capacity of a subscriber queue (Queue(maxsize=1000), scaled down)
MaxClock == 1          \* readings of the file system clock after the first
MaxCfg == 1            \* POST /config requests served

\* --------------------------------------------------------- program values
Modes == {"none", "inline", "after"}
NoneInt == -1          \* Python None for an Optional[int]
MarkerBytes == 14      \* len("[IDLE for Ns]\n") for a one-digit N
RetainDefault == 10    \* --retain default
NoPath == [k |-> "none", pre |-> "", gz |-> FALSE, t |-> 0]
Threads == {"ing", "http", "idle"}
Conns == 1..MaxConn

\* POST /config: no request, no response, nothing remembered
NoRequest == [has |-> {}, retain |-> 0, max_bytes |-> 0, interval |-> 0,
              compress |-> "none"]
NoResponse == [done |-> FALSE, ok |-> FALSE, code |-> 0, updated |-> {}]
NoOld == [compress |-> "none", retain |-> 0, max_bytes |-> 0, interval_s |-> 0,
          runtime_cfg |-> [compress |-> "none", retain |-> 0, max_bytes |-> 0,
                           interval_seconds |-> 0, prefix |-> "capture"],
          rot |-> 0, fp |-> 0, prefix |-> "capture"]

VARIABLES
    \* RotatingWriter
    compress, prefix, max_bytes, interval_s,
    current_fp, current_path, bytes_written_uncompressed,
    rotate_due_flag, rotate_after_this_line,
    compress_threads,
    \* file system: directory entries, inode contents, open-file handles
    dir, content, hs, rot_tick,
    \* threads: program counters and locals
    pc, loc, input, nread, nreq, tpc,
    \* _Metrics
    files_rotated_total, idle_alerts_total, idle_active,
    \* IdleMonitor
    threshold, idle_timer, elapsed,
    \* _StreamHub, the /stream handler threads and their clients
    ring, ring_cap, subs, queue, spc, sraw, gone, replay,
    streams_connected_total, streams_disconnected_total, streams_current,
    \* history (not read by the program)
    written, rotated, period_markers, period_alerts, soft_mark, lowrot,
    longgap, arm_hist,
    published, recv, snap0, snapidx, enq, dropped, ncon, ndis,
    \* writer.retain, runtime_cfg, the interval timer thread, the /config request
    \* being served and its response
    retain, runtime_cfg, timer_t, cfg_req, cfg_resp, ncfg,
    \* file modification times (st_mtime per inode) and the clock they are read from
    mtime, now,
    \* history: the configuration when the /config request arrived
    cfg_old,
    \* shutdown: the HTTP listener serves, idle_monitor.stop() has run,
    \* close_current(True) has run
    srv_up, idle_stopped, final_closed,
    \* the data format of each inode: "plain", or "gzip" when written by gzip
    fmt

writerVars == <<compress, prefix, max_bytes, interval_s, current_fp, current_path,
                bytes_written_uncompressed, rotate_due_flag, rotate_after_this_line,
                compress_threads>>
fsVars == <<dir, content, hs, rot_tick>>
threadVars == <<pc, loc, input, nread, nreq, tpc>>
metricVars == <<files_rotated_total, idle_alerts_total, idle_active>>
idleVars == <<threshold, idle_timer, elapsed>>
histVars == <<written, rotated, period_markers, period_alerts, soft_mark, lowrot>>
idleHist == <<longgap, arm_hist>>
hubVars == <<ring, ring_cap, subs, queue, spc, sraw, gone, replay,
             streams_connected_total, streams_disconnected_total, streams_current,
             published, recv, snap0, snapidx, enq, dropped, ncon, ndis>>
cfgRest == <<retain, runtime_cfg, timer_t, cfg_req, cfg_resp, ncfg, now, cfg_old>>
cfgVars == <<cfgRest, mtime>>
shutVars == <<srv_up, idle_stopped, final_closed>>
endVars == <<shutVars, fmt>>
vars == <<writerVars, fsVars, threadVars, metricVars, idleVars, histVars, idleHist,
          hubVars, cfgVars, endVars>>

\* ------------------------------------------------------------- file names
\* RotatingWriter._make_current_path: <prefix>.current.log[.gz]
MakeCurrentPath == [k |-> "cur", pre |-> prefix, gz |-> (compress = "inline"), t |-> 0]

\* RotatingWriter._make_rotated_name: <prefix>-<ts>-<ms suffix>.log[.gz]; the
\* timestamp and the millisecond suffix are the clock reading tick.
MakeRotatedName(was_gz, tick) ==
    [k |-> "rot", pre |-> prefix, gz |-> (compress = "inline" \/ was_gz), t |-> tick]

\* Path.with_suffix(suffix + ".gz") of a plaintext current path
GzPath(p) == [p EXCEPT !.gz = TRUE]

\* ------------------------------------------------------ file-system steps
Exists(d, p) == p \in DOMAIN d
Unlink(d, p) == [x \in DOMAIN d \ {p} |-> d[x]]
\* os.rename: the entry p moves to q, replacing an entry q that exists
Rename(d, p, q) == [x \in (DOMAIN d \ {p}) \cup {q} |-> IF x = q THEN d[p] ELSE d[x]]

\* (a write that leaves the line's last byte in a file of its own instead of
\* the file of the handle)
FileWriteSplit(c, i, id, n) ==
    Append([c EXCEPT ![i] = Append(@, [id |-> id, n |-> n - 1])], <<[id |-> id, n |-> 1]>>)

\* one write() of a whole line through a handle on inode i
FileWrite(c, i, id, n) == [c EXCEPT ![i] = Append(@, [id |-> id, n |-> n])]

\* --------------------------------------------------------- RotatingWriter
\* open_new(): close_current(finalize=False), then open the current path in
\* append mode.  open(path, "ab") opens the inode the name already refers to
\* and creates an empty one only when the name is absent.
OpenNew ==
    LET closed == IF current_fp # 0 THEN [hs EXCEPT ![current_fp].open = FALSE] ELSE hs
        p == MakeCurrentPath
        ino == IF Exists(dir, p) THEN dir[p] ELSE Len(content) + 1
    IN  /\ hs' = Append(closed, [ino |-> ino, open |-> TRUE])
        /\ current_fp' = Len(hs) + 1
        /\ current_path' = p
        /\ dir' = IF Exists(dir, p) THEN dir ELSE (p :> ino) @@ dir
        /\ content' = IF Exists(dir, p) THEN content ELSE Append(content, <<>>)
        /\ mtime' = IF Exists(dir, p) THEN mtime ELSE Append(mtime, now)
        /\ fmt' = IF Exists(dir, p) THEN fmt
                  ELSE Append(fmt, IF compress = "inline" THEN "gzip" ELSE "plain")
        /\ bytes_written_uncompressed' = 0

\* rotate(), first half (889-902): without a handle, open_new() and return;
\* else take old_fp/old_path, clear the fields, count the rotation, clear the
\* two flags.  A rotation called from begin_line returns to "wcheck".
RotateA(t) ==
    /\ pc[t] = "rotA"
    /\ IF current_fp = 0
       THEN /\ OpenNew
            /\ pc' = [pc EXCEPT ![t] = loc[t].ret]
            /\ UNCHANGED <<loc, rotate_due_flag, rotate_after_this_line,
                           files_rotated_total, lowrot>>
       ELSE /\ loc' = [loc EXCEPT ![t].old_fp = current_fp, ![t].old_path = current_path]
            /\ current_fp' = 0
            /\ current_path' = NoPath
            /\ bytes_written_uncompressed' = 0
            /\ files_rotated_total' = files_rotated_total + 1
            /\ rotate_due_flag' = FALSE
            /\ rotate_after_this_line' = FALSE
            /\ lowrot' = (lowrot \/ (loc[t].ret = "wcheck" /\ max_bytes # NoneInt
                                      /\ bytes_written_uncompressed < max_bytes))
            /\ pc' = [pc EXCEPT ![t] = "rotB"]
            /\ UNCHANGED <<dir, content, hs, mtime, fmt>>
    /\ UNCHANGED <<compress, prefix, max_bytes, interval_s, compress_threads, rot_tick,
                   input, nread, nreq, tpc, idle_alerts_total, idle_active,
                   idleVars, written, rotated, period_markers, period_alerts, soft_mark>>
    /\ UNCHANGED <<hubVars, idleHist, cfgRest, shutVars>>

\* rotate(), second half (904-943): open_new(), then start the finalize thread
\* for old_fp/old_path.
RotateB(t) ==
    /\ pc[t] = "rotB"
    /\ OpenNew
    /\ compress_threads' = compress_threads \cup
           {[fp |-> loc[t].old_fp, path |-> loc[t].old_path, st |-> "close",
             files |-> {}]}
    /\ pc' = [pc EXCEPT ![t] = loc[t].ret]
    /\ loc' = [loc EXCEPT ![t].old_fp = 0, ![t].old_path = NoPath]
    /\ UNCHANGED <<compress, prefix, max_bytes, interval_s, rotate_due_flag,
                   rotate_after_this_line, rot_tick, input, nread, nreq, tpc,
                   metricVars, idleVars, histVars>>
    /\ UNCHANGED <<hubVars, idleHist, cfgRest, shutVars>>

\* finalize(), first statement (907-910): old_fp.close()
FinalizeClose(f) ==
    /\ f \in compress_threads
    /\ f.st = "close"
    /\ hs' = [hs EXCEPT ![f.fp].open = FALSE]
    /\ compress_threads' = (compress_threads \ {f}) \cup {[f EXCEPT !.st = "move"]}
    /\ UNCHANGED <<compress, prefix, max_bytes, interval_s, current_fp, current_path,
                   bytes_written_uncompressed, rotate_due_flag, rotate_after_this_line,
                   dir, content, rot_tick, threadVars, metricVars, idleVars, histVars>>
    /\ UNCHANGED <<hubVars, idleHist, cfgVars, endVars>>

\* An upper bound of the number of rotations, and so of rotated files: one
\* per begin_line (source lines and idle markers), one at the end of input,
\* one per hard rotate request.
MaxRotated == Len(input) + MaxAlerts + MaxReq + 1

\* finalize(), the rest (911-933).  In mode "after" a plaintext old_path that
\* exists is copied into old_path + ".gz" and unlinked; the result is renamed
\* to the rotated name, and a failing rename is swallowed.  self.compress and
\* self.prefix are read when the thread runs.  tick is the clock reading of
\* _make_rotated_name: that of the previous finalization or a later one.
\* _prune_retention follows in FinalizeList and FinalizePrune, unless
\* self.retain is at least MaxRotated: it can then delete nothing, and the
\* thread ends here.
FinalizeMove(f, tick) ==
    /\ f \in compress_threads
    /\ f.st = "move"
    /\ LET doGz == compress = "after" /\ ~f.path.gz /\ Exists(dir, f.path)
           gz_path == GzPath(f.path)
           gz_ino == IF Exists(dir, gz_path) THEN dir[gz_path] ELSE Len(content) + 1
           content1 == IF ~doGz THEN content
                       ELSE IF Exists(dir, gz_path)
                            THEN [content EXCEPT ![gz_ino] = content[dir[f.path]]]
                            ELSE Append(content, content[dir[f.path]])
           dir1 == IF doGz THEN Unlink((gz_path :> gz_ino) @@ dir, f.path) ELSE dir
           final_path == IF doGz THEN gz_path ELSE f.path
           rotated_name == MakeRotatedName(final_path.gz, tick)
           ok == Exists(dir1, final_path)
       IN  /\ content' = content1
           /\ mtime' = IF ~doGz THEN mtime
                       ELSE IF Exists(dir, gz_path) THEN [mtime EXCEPT ![gz_ino] = now]
                            ELSE Append(mtime, now)
           /\ fmt' = IF ~doGz THEN fmt
                     ELSE IF Exists(dir, gz_path) THEN [fmt EXCEPT ![gz_ino] = "gzip"]
                          ELSE Append(fmt, "gzip")
           /\ dir' = IF ok THEN Rename(dir1, final_path, rotated_name) ELSE dir1
           /\ rotated' = IF ok
                         THEN Append(SelectSeq(rotated, LAMBDA r : r # rotated_name),
                                     rotated_name)
                         ELSE rotated
    /\ rot_tick' = tick
    /\ compress_threads' = IF retain >= MaxRotated
                           THEN compress_threads \ {f}
                           ELSE (compress_threads \ {f}) \cup {[f EXCEPT !.st = "list"]}
    /\ UNCHANGED <<compress, prefix, max_bytes, interval_s, current_fp, current_path,
                   bytes_written_uncompressed, rotate_due_flag, rotate_after_this_line,
                   hs, threadVars, metricVars, idleVars, written, period_markers,
                   period_alerts, soft_mark, lowrot>>
    /\ UNCHANGED <<hubVars, idleHist, cfgRest, shutVars>>

\* finalize() when a step of it fails (911-929).  gzFail: the copy into
\* old_path + ".gz" raises after gzip.open(gz_path, "wb") has created or
\* truncated that file; the except clause (919-920) goes on with the plaintext
\* old_path, which is not unlinked.  mvFail: the rename raises, which is
\* swallowed (926-929): the file stays under the name it has.
FinalizeMoveFail(f, tick, gzFail, mvFail) ==
    /\ f \in compress_threads
    /\ f.st = "move"
    /\ gzFail \/ mvFail
    /\ LET doGz == compress = "after" /\ ~f.path.gz /\ Exists(dir, f.path)
           gz_path == GzPath(f.path)
           gz_ino == IF Exists(dir, gz_path) THEN dir[gz_path] ELSE Len(content) + 1
           copied == IF gzFail THEN <<>> ELSE content[dir[f.path]]
           content1 == IF ~doGz THEN content
                       ELSE IF Exists(dir, gz_path)
                            THEN [content EXCEPT ![gz_ino] = copied]
                            ELSE Append(content, copied)
           dir1 == IF ~doGz THEN dir
                   ELSE IF gzFail THEN (gz_path :> gz_ino) @@ dir
                        ELSE Unlink((gz_path :> gz_ino) @@ dir, f.path)
           final_path == IF doGz /\ ~gzFail THEN gz_path ELSE f.path
           rotated_name == MakeRotatedName(final_path.gz, tick)
           ok == Exists(dir1, final_path) /\ ~mvFail
       IN  /\ gzFail => doGz
           /\ content' = content1
           /\ mtime' = IF ~doGz THEN mtime
                       ELSE IF Exists(dir, gz_path) THEN [mtime EXCEPT ![gz_ino] = now]
                            ELSE Append(mtime, now)
           /\ fmt' = IF ~doGz THEN fmt
                     ELSE IF Exists(dir, gz_path) THEN [fmt EXCEPT ![gz_ino] = "gzip"]
                          ELSE Append(fmt, "gzip")
           /\ dir' = IF ok THEN Rename(dir1, final_path, rotated_name) ELSE dir1
           /\ rotated' = IF ok
                         THEN Append(SelectSeq(rotated, LAMBDA r : r # rotated_name),
                                     rotated_name)
                         ELSE rotated
    /\ rot_tick' = tick
    /\ compress_threads' = IF retain >= MaxRotated
                           THEN compress_threads \ {f}
                           ELSE (compress_threads \ {f}) \cup {[f EXCEPT !.st = "list"]}
    /\ UNCHANGED <<compress, prefix, max_bytes, interval_s, current_fp, current_path,
                   bytes_written_uncompressed, rotate_due_flag, rotate_after_this_line,
                   hs, threadVars, metricVars, idleVars, written, period_markers,
                   period_alerts, soft_mark, lowrot>>
    /\ UNCHANGED <<hubVars, idleHist, cfgRest, shutVars>>

\* The rotated files of the current prefix: names <prefix>-*.log[.gz]
RotatedFiles(d) == {p \in DOMAIN d : p.k = "rot" /\ p.pre = prefix}

\* _prune_retention (877-881), called at the end of finalize (930-933): the
\* directory is listed and filtered
FinalizeList(f) ==
    /\ f \in compress_threads
    /\ f.st = "list"
    /\ compress_threads' = (compress_threads \ {f}) \cup
           {[f EXCEPT !.st = "prune", !.files = RotatedFiles(dir)]}
    /\ UNCHANGED <<compress, prefix, max_bytes, interval_s, current_fp, current_path,
                   bytes_written_uncompressed, rotate_due_flag, rotate_after_this_line,
                   fsVars, threadVars, metricVars, idleVars, histVars>>
    /\ UNCHANGED <<hubVars, idleHist, cfgVars, endVars>>

\* files.sort(key=st_mtime, reverse=True)[:retain] for one order of the listing:
\* keep is a set of min(retain, len(files)) files none of which is older than
\* a file left out.  Files of equal mtime stay in the order of iterdir().
NewestFirst(files, keep) ==
    /\ keep \subseteq files
    /\ Cardinality(keep) = (IF retain <= Cardinality(files) THEN retain
                            ELSE Cardinality(files))
    /\ \A k \in keep : \A d \in files \ keep : mtime[dir[k]] >= mtime[dir[d]]

\* _prune_retention (882-887): the listing is sorted newest first by st_mtime
\* and the files beyond self.retain are unlinked.  stat() of a listed file
\* that is gone by now raises FileNotFoundError out of the sort, which
\* finalize swallows (932-933): nothing is unlinked.  self.retain is read here.
FinalizePrune(f, keep) ==
    /\ f \in compress_threads
    /\ f.st = "prune"
    /\ IF \E p \in f.files : ~Exists(dir, p)
       THEN /\ keep = {}
            /\ UNCHANGED dir
       ELSE /\ NewestFirst(f.files, keep)
            /\ dir' = [x \in DOMAIN dir \ (f.files \ keep) |-> dir[x]]
    /\ compress_threads' = compress_threads \ {f}
    /\ UNCHANGED <<compress, prefix, max_bytes, interval_s, current_fp, current_path,
                   bytes_written_uncompressed, rotate_due_flag, rotate_after_this_line,
                   content, hs, rot_tick, threadVars, metricVars, idleVars, histVars>>
    /\ UNCHANGED <<hubVars, idleHist, cfgVars, endVars>>

\* The file system clock moves on: files written from now on get a later
\* st_mtime than those written before.
ClockTick ==
    /\ now < MaxClock
    /\ now' = now + 1
    /\ UNCHANGED <<writerVars, fsVars, threadVars, metricVars, idleVars, histVars,
                   hubVars, idleHist, retain, runtime_cfg, timer_t, cfg_req, cfg_resp,
                   ncfg, cfg_old, mtime, endVars>>

\* Where a thread goes on when write_line returns: the ingestion loop reads
\* the next line, the timer thread of _fire ends.
AfterWrite(t) == IF t = "ing" THEN "read" ELSE "idle"

\* An exception out of write_line: in the ingestion thread it leaves
\* stream_loop_lines and run(); in a timer thread it ends that thread.
Raised(t) == IF t = "ing" THEN "crashed" ELSE "idle"

\* (a begin_line that leaves the pending rotation to a later line)
BeginLineNoRotate(t) ==
    /\ pc[t] = "begin"
    /\ pc' = [pc EXCEPT ![t] = "wcheck"]
    /\ UNCHANGED <<writerVars, fsVars, loc, input, nread, nreq, tpc,
                   metricVars, idleVars, histVars>>
    /\ UNCHANGED <<hubVars, idleHist, cfgVars, endVars>>

\* begin_line() (945-947)
BeginLine(t) ==
    /\ pc[t] = "begin"
    /\ pc' = [pc EXCEPT ![t] = IF rotate_after_this_line THEN "rotA" ELSE "wcheck"]
    /\ UNCHANGED <<writerVars, fsVars, loc, input, nread, nreq, tpc,
                   metricVars, idleVars, histVars>>
    /\ UNCHANGED <<hubVars, idleHist, cfgVars, endVars>>

\* write_line(), 969-970: open a file when none is open
WriteCheck(t) ==
    /\ pc[t] = "wcheck"
    /\ IF current_fp = 0
       THEN OpenNew
       ELSE UNCHANGED <<hs, current_fp, current_path, dir, content, mtime, fmt,
                        bytes_written_uncompressed>>
    /\ pc' = [pc EXCEPT ![t] = "wload"]
    /\ UNCHANGED <<compress, prefix, max_bytes, interval_s, rotate_due_flag,
                   rotate_after_this_line, compress_threads, rot_tick, loc, input, nread,
                   nreq, tpc, metricVars, idleVars, histVars>>
    /\ UNCHANGED <<hubVars, idleHist, cfgRest, shutVars>>

\* write_line(), 981: the attribute self.current_fp is read; None has no
\* write() and raises AttributeError
WriteLoad(t) ==
    /\ pc[t] = "wload"
    /\ pc' = [pc EXCEPT ![t] = IF current_fp = 0 THEN Raised(t) ELSE "wwrite"]
    /\ loc' = [loc EXCEPT ![t].fp = current_fp]
    /\ UNCHANGED <<writerVars, fsVars, input, nread, nreq, tpc,
                   metricVars, idleVars, histVars>>
    /\ UNCHANGED <<hubVars, idleHist, cfgVars, endVars>>

\* write_line(), 981-985: write(line) and flush() on the handle read; a
\* closed handle raises ValueError
WriteFile(t) ==
    /\ pc[t] = "wwrite"
    /\ IF ~hs[loc[t].fp].open
       THEN /\ pc' = [pc EXCEPT ![t] = Raised(t)]
            /\ UNCHANGED <<content, mtime, written, period_markers>>
       ELSE /\ pc' = [pc EXCEPT ![t] = "wpost"]
            /\ content' = FileWrite(content, hs[loc[t].fp].ino, loc[t].line, loc[t].n)
            /\ mtime' = [mtime EXCEPT ![hs[loc[t].fp].ino] = now]
            /\ written' = Append(written, [id |-> loc[t].line, h |-> loc[t].fp,
                                           rot |-> files_rotated_total])
            /\ period_markers' = IF t = "idle" THEN period_markers + 1 ELSE 0
    /\ loc' = [loc EXCEPT ![t].fp = 0]
    /\ UNCHANGED <<writerVars, dir, hs, rot_tick, input, nread, nreq, tpc, fmt,
                   metricVars, idleVars, rotated, period_alerts, soft_mark, lowrot>>
    /\ UNCHANGED <<hubVars, idleHist, cfgRest, shutVars>>

\* deque(maxlen=cap).append: the oldest line leaves a full ring
RingAppend(r, cap, x) ==
    IF Len(r) < cap THEN Append(r, x) ELSE Append(Tail(r), x)

\* write_line(), 1004-1007: the size and interval triggers, and the return
Triggers(t) ==
    /\ rotate_after_this_line' =
          (rotate_after_this_line
             \/ (max_bytes # NoneInt /\ bytes_written_uncompressed' >= max_bytes)
             \/ rotate_due_flag)
    /\ pc' = [pc EXCEPT ![t] = AfterWrite(t)]
    /\ loc' = [loc EXCEPT ![t].line = 0, ![t].n = 0, ![t].ret = "idle", ![t].subs = {}]

\* write_line(), 987-1002: count the bytes, idle_monitor.poke() (470-475:
\* _last_write = now, cancel and re-arm the timer, clear idle_active), then
\* STREAM_HUB.publish, its locked part (295-297): append to the ring and copy
\* the set of subscribers.  Without subscribers the loop of put_nowait does
\* nothing and the triggers follow at once.
WritePost(t) ==
    /\ pc[t] = "wpost"
    /\ bytes_written_uncompressed' = bytes_written_uncompressed + loc[t].n
    /\ elapsed' = 0
    /\ idle_timer' = IF threshold > 0 THEN threshold ELSE -1
    /\ idle_active' = 0
    /\ period_alerts' = IF t = "idle" THEN period_alerts ELSE 0
    /\ ring' = RingAppend(ring, ring_cap, loc[t].line)
    /\ published' = Append(published, loc[t].line)
    /\ IF subs = {}
       THEN Triggers(t)
       ELSE /\ pc' = [pc EXCEPT ![t] = "wput"]
            /\ loc' = [loc EXCEPT ![t].subs = subs]
            /\ UNCHANGED rotate_after_this_line
    /\ UNCHANGED <<compress, prefix, max_bytes, interval_s, current_fp, current_path,
                   rotate_due_flag, compress_threads, fsVars, input, nread, nreq,
                   tpc, files_rotated_total, idle_alerts_total, threshold,
                   written, rotated, period_markers, soft_mark, lowrot>>
    /\ UNCHANGED <<idleHist, cfgVars, endVars, ring_cap, subs, queue, spc, sraw, gone, replay,
                   streams_connected_total, streams_disconnected_total, streams_current,
                   recv, snap0, snapidx, enq, dropped, ncon, ndis>>

\* publish, outside the lock (298-302): put_nowait on every queue of the copy;
\* a full queue raises Full, which is swallowed.  Then the triggers.
WritePut(t) ==
    /\ pc[t] = "wput"
    /\ queue' = [c \in Conns |->
                   IF c \in loc[t].subs /\ Len(queue[c]) < MaxQueue
                   THEN Append(queue[c], loc[t].line) ELSE queue[c]]
    /\ enq' = [c \in Conns |->
                 IF c \in loc[t].subs /\ Len(queue[c]) < MaxQueue
                 THEN Append(enq[c], loc[t].line) ELSE enq[c]]
    /\ dropped' = [c \in Conns |->
                     dropped[c] \/ (c \in loc[t].subs /\ Len(queue[c]) >= MaxQueue)]
    /\ Triggers(t)
    /\ UNCHANGED <<compress, prefix, max_bytes, interval_s, current_fp, current_path,
                   bytes_written_uncompressed, rotate_due_flag, compress_threads,
                   fsVars, input, nread, nreq, tpc, metricVars, idleVars, histVars>>
    /\ UNCHANGED <<idleHist, cfgVars, endVars, ring, ring_cap, subs, spc, sraw, gone, replay,
                   streams_connected_total, streams_disconnected_total, streams_current,
                   published, recv, snap0, snapidx, ncon, ndis>>

\* ---------------------------------------------------------- ingestion loop
\* stream_loop_lines (1044-1046): the next line of the source, or end of input
IngRead ==
    /\ pc["ing"] = "read"
    /\ IF nread < Len(input)
       THEN /\ nread' = nread + 1
            /\ loc' = [loc EXCEPT !["ing"].line = nread + 1, !["ing"].n = input[nread + 1],
                                  !["ing"].ret = "wcheck"]
            /\ pc' = [pc EXCEPT !["ing"] = "begin"]
       ELSE /\ pc' = [pc EXCEPT !["ing"] = "eof"]
            /\ UNCHANGED <<nread, loc>>
    /\ UNCHANGED <<writerVars, fsVars, input, nreq, tpc, metricVars, idleVars,
                   histVars>>
    /\ UNCHANGED <<hubVars, idleHist, cfgVars, endVars>>

\* stream_loop_lines (1054-1055): a rotation still pending at end of input
IngEof ==
    /\ pc["ing"] = "eof"
    /\ pc' = [pc EXCEPT !["ing"] = IF rotate_after_this_line THEN "rotA" ELSE "done"]
    /\ loc' = [loc EXCEPT !["ing"].ret = "done"]
    /\ UNCHANGED <<writerVars, fsVars, input, nread, nreq, tpc, metricVars,
                   idleVars, histVars>>
    /\ UNCHANGED <<hubVars, idleHist, cfgVars, endVars>>

\* ------------------------------------------------------- HTTP control plane
\* No thread is inside rotate() and the ingestion loop waits for a line.
Quiet ==
    /\ pc["ing"] = "read"
    /\ pc["idle"] = "idle"
    /\ \A t \in Threads : pc[t] \notin {"rotA", "rotB"}

\* rotate_now(soft=True) (655-657)
RotateNowSoft ==
    /\ srv_up
    /\ pc["http"] = "idle"
    /\ nreq < MaxReq
    /\ nreq' = nreq + 1
    /\ rotate_after_this_line' = TRUE
    /\ soft_mark' = IF Quiet
                    THEN [set |-> TRUE, lines |-> Len(written),
                          rot |-> files_rotated_total, fp |-> current_fp]
                    ELSE soft_mark
    /\ UNCHANGED <<compress, prefix, max_bytes, interval_s, current_fp, current_path,
                   bytes_written_uncompressed, rotate_due_flag, compress_threads, fsVars,
                   pc, loc, input, nread, tpc, metricVars, idleVars, written,
                   rotated, period_markers, period_alerts, lowrot>>
    /\ UNCHANGED <<hubVars, idleHist, cfgVars, endVars>>

\* rotate_now(soft=False) (658-660): calls writer.rotate()
RotateNowHard ==
    /\ srv_up
    /\ pc["http"] = "idle"
    /\ nreq < MaxReq
    /\ nreq' = nreq + 1
    /\ pc' = [pc EXCEPT !["http"] = "rotA"]
    /\ loc' = [loc EXCEPT !["http"].ret = "idle"]
    /\ UNCHANGED <<writerVars, fsVars, input, nread, tpc, metricVars, idleVars,
                   histVars>>
    /\ UNCHANGED <<hubVars, idleHist, cfgVars, endVars>>

\* apply_config, payload {"compress": cv} with a valid cv that changes the
\* mode (736-744)
ApplyConfigCompress(cv) ==
    /\ pc["http"] = "idle"
    /\ cv # compress
    /\ nreq < MaxReq
    /\ nreq' = nreq + 1
    /\ compress' = cv
    /\ runtime_cfg' = [runtime_cfg EXCEPT !.compress = cv]
    /\ pc' = [pc EXCEPT !["http"] = "cfgflag"]
    /\ UNCHANGED <<prefix, max_bytes, interval_s, current_fp, current_path,
                   bytes_written_uncompressed, rotate_due_flag, rotate_after_this_line,
                   compress_threads, fsVars, loc, input, nread, tpc, metricVars,
                   idleVars, histVars>>
    /\ UNCHANGED <<hubVars, idleHist, retain, timer_t, cfg_req, cfg_resp, ncfg, now,
                   cfg_old, mtime, endVars>>

\* apply_config (746-749): needs_rotation sets rotate_after_this_line
ApplyConfigFlag ==
    /\ pc["http"] = "cfgflag"
    /\ rotate_after_this_line' = TRUE
    /\ pc' = [pc EXCEPT !["http"] = "idle"]
    /\ UNCHANGED <<compress, prefix, max_bytes, interval_s, current_fp, current_path,
                   bytes_written_uncompressed, rotate_due_flag, compress_threads, fsVars,
                   loc, input, nread, nreq, tpc, metricVars, idleVars, histVars>>
    /\ UNCHANGED <<hubVars, idleHist, cfgVars, endVars>>

\* ------------------------------------------------------------ _timer_loop
\* The thread exists when interval_s was non-zero at construction (831-835).
\* 868-872: time.time() has reached next_fire, rotate_due_flag = True.  The
\* loop does not look at interval_s before it fires; it adds the value that
\* interval_s has then to the clock for the next_fire to come (874).
TimerDue ==
    /\ timer_t
    /\ tpc = "sleep"
    /\ nreq < MaxReq
    /\ nreq' = nreq + 1
    /\ rotate_due_flag' = TRUE
    /\ tpc' = "mid"
    /\ UNCHANGED <<compress, prefix, max_bytes, interval_s, current_fp, current_path,
                   bytes_written_uncompressed, rotate_after_this_line, compress_threads,
                   fsVars, pc, loc, input, nread, metricVars, idleVars, histVars>>
    /\ UNCHANGED <<hubVars, idleHist, cfgVars, endVars>>

\* 873-874: rotate_after_this_line = True
TimerAfter ==
    /\ tpc = "mid"
    /\ rotate_after_this_line' = TRUE
    /\ tpc' = "sleep"
    /\ UNCHANGED <<compress, prefix, max_bytes, interval_s, current_fp, current_path,
                   bytes_written_uncompressed, rotate_due_flag, compress_threads,
                   fsVars, pc, loc, input, nread, nreq, metricVars, idleVars,
                   histVars>>
    /\ UNCHANGED <<hubVars, idleHist, cfgVars, endVars>>

\* ------------------------------------------------------------ IdleMonitor
MaxElapsed == 2 * TicksPerSec   \* the clock distance since _last_write saturates here

\* One clock tick: time.monotonic() moves on, the armed timer's wait shortens.
Tick ==
    /\ elapsed' = IF elapsed < MaxElapsed THEN elapsed + 1 ELSE elapsed
    /\ idle_timer' = IF idle_timer > 0 THEN idle_timer - 1 ELSE idle_timer
    /\ elapsed' # elapsed \/ idle_timer' # idle_timer
    /\ longgap' = (longgap \/ (threshold > 0 /\ elapsed' >= threshold))
    /\ UNCHANGED <<writerVars, fsVars, threadVars, metricVars, threshold, histVars>>
    /\ UNCHANGED <<hubVars, arm_hist, cfgVars, endVars>>

\* threading.Timer: the wait of the armed timer ends and its thread calls
\* _fire; from here on cancel() has no effect on it.
TimerExpire ==
    /\ idle_timer = 0
    /\ pc["idle"] = "idle"
    /\ idle_alerts_total < MaxAlerts
    /\ idle_timer' = -1
    /\ pc' = [pc EXCEPT !["idle"] = "fcheck"]
    /\ UNCHANGED <<writerVars, fsVars, loc, input, nread, nreq, tpc, metricVars,
                   threshold, elapsed, histVars>>
    /\ arm_hist' = [arm_hist EXCEPT !.cb = IF arm_hist.set THEN "new" ELSE "none"]
    /\ UNCHANGED <<hubVars, longgap, cfgVars, endVars>>

\* int(now - self._last_write), in seconds
Since == elapsed \div TicksPerSec

\* (a _fire without the elapsed-time check of 453-455)
FireNoCheck ==
    /\ pc["idle"] = "fcheck"
    /\ idle_alerts_total' = idle_alerts_total + 1
    /\ idle_active' = 1
    /\ period_alerts' = period_alerts + 1
    /\ loc' = [loc EXCEPT !["idle"].line = 0, !["idle"].n = MarkerBytes,
                          !["idle"].ret = "wcheck"]
    /\ pc' = [pc EXCEPT !["idle"] = "begin"]
    /\ UNCHANGED <<writerVars, fsVars, input, nread, nreq, tpc,
                   files_rotated_total, idleVars, written, rotated, period_markers,
                   soft_mark, lowrot>>
    /\ UNCHANGED <<hubVars, idleHist, cfgVars, endVars>>

\* _fire (450-459): still idle?  then idle_triggered() and the marker line
\* goes through begin_line/write_line
Fire ==
    /\ pc["idle"] = "fcheck"
    /\ IF threshold <= 0 \/ Since * TicksPerSec < threshold
       THEN /\ pc' = [pc EXCEPT !["idle"] = "idle"]
            /\ UNCHANGED <<loc, idle_alerts_total, idle_active, period_alerts>>
       ELSE /\ idle_alerts_total' = idle_alerts_total + 1
            /\ idle_active' = 1
            /\ period_alerts' = period_alerts + 1
            /\ loc' = [loc EXCEPT !["idle"].line = 0, !["idle"].n = MarkerBytes,
                                  !["idle"].ret = "wcheck"]
            /\ pc' = [pc EXCEPT !["idle"] = "begin"]
    /\ UNCHANGED <<writerVars, fsVars, input, nread, nreq, tpc,
                   files_rotated_total, idleVars, written, rotated, period_markers,
                   soft_mark, lowrot>>
    /\ UNCHANGED <<hubVars, idleHist, cfgVars, endVars>>

\* ---------------------------------------------- IdleMonitor.arm by config
\* The lines of the source stream written so far (the marker has id 0).
RealLines == Len(SelectSeq(written, LAMBDA w : w.id # 0))

\* apply_config, payload {"idle_alert_secs": v} (694-700): idle_monitor.arm(v)
\* (477-481) sets the threshold, cancels the timer and, for v > 0, starts a new
\* one; _last_write is left alone.  cancel() does not stop a callback whose
\* wait has ended.
ArmConfig(v) ==
    /\ pc["http"] = "idle"
    /\ nreq < MaxReq
    /\ nreq' = nreq + 1
    /\ threshold' = v
    /\ idle_timer' = IF v > 0 THEN v ELSE -1
    /\ arm_hist' = [set |-> TRUE, lines |-> RealLines,
                    cb |-> IF pc["idle"] # "idle" THEN "old" ELSE "none"]
    /\ UNCHANGED <<writerVars, fsVars, pc, loc, input, nread, tpc, metricVars, elapsed,
                   histVars, longgap, hubVars, cfgVars, endVars>>

\* ----------------------------------------------------------- _StreamHub
Max(a, b) == IF a >= b THEN a ELSE b
Min(a, b) == IF a <= b THEN a ELSE b

\* old[-n:] for n >= 1
LastN(r, n) == IF Len(r) <= n THEN r ELSE SubSeq(r, Len(r) - n + 1, Len(r))

\* (a resize that keeps the oldest lines, old[:n])
SetRingSizeHead(n) ==
    /\ pc["http"] = "idle"
    /\ nreq < MaxReq
    /\ nreq' = nreq + 1
    /\ ring_cap' = Max(1, n)
    /\ ring' = SubSeq(ring, 1, Min(Max(1, n), Len(ring)))
    /\ UNCHANGED <<writerVars, fsVars, pc, loc, input, nread, tpc, metricVars, idleVars,
                   histVars, idleHist, cfgVars, endVars, subs, queue, spc, sraw, gone, replay,
                   streams_connected_total, streams_disconnected_total, streams_current,
                   published, recv, snap0, snapidx, enq, dropped, ncon, ndis>>

\* apply_config, payload {"ring_size": n} (687-692): set_ring_size (274-278),
\* under the hub's lock
SetRingSize(n) ==
    /\ pc["http"] = "idle"
    /\ nreq < MaxReq
    /\ nreq' = nreq + 1
    /\ ring_cap' = Max(1, n)
    /\ ring' = LastN(ring, Max(1, n))
    /\ UNCHANGED <<writerVars, fsVars, pc, loc, input, nread, tpc, metricVars, idleVars,
                   histVars, idleHist, cfgVars, endVars, subs, queue, spc, sraw, gone, replay,
                   streams_connected_total, streams_disconnected_total, streams_current,
                   published, recv, snap0, snapidx, enq, dropped, ncon, ndis>>

\* ------------------------------------------------- apply_config (672-751)
\* The payload of a POST /config: has is the set of its keys; "rotate_now"
\* in has stands for "rotate_now": true, "cmd" for an attempt to set the
\* command.  The fields are handled in the order of the code.
Stages == <<"retain", "max_bytes", "interval", "prefix", "compress">>
StagePc == <<"cfg_retain", "cfg_max_bytes", "cfg_interval", "cfg_prefix", "cfg_compress">>

\* where apply_config goes on after the i-th field: the next key the payload
\* has, or the rotation flag and the return (746-749)
NextStage(p, i) ==
    LET js == {j \in (i + 1)..Len(Stages) : Stages[j] \in p.has}
    IN  IF js = {} THEN "cfg_flag"
        ELSE StagePc[CHOOSE j \in js : \A k \in js : j <= k]

Payload(h, r, m, i, c) ==
    [has |-> h, retain |-> r, max_bytes |-> m, interval |-> i, compress |-> c]

\* the requests of the model
Payloads ==
    { Payload({"compress"}, 0, 0, 0, "bogus"),
      Payload({"retain", "compress"}, 1, 0, 0, "bogus"),
      Payload({"retain"}, -1, 0, 0, "none"),
      Payload({"cmd"}, 0, 0, 0, "none"),
      Payload({"max_bytes"}, 0, 0, 0, "none"),
      Payload({"interval"}, 0, 0, 0, "none"),
      Payload({"rotate_now"}, 0, 0, 0, "none"),
      Payload({"retain", "max_bytes", "interval", "compress"}, 1, 2, 1, "inline") }

\* what no step of apply_config changes
ConfigFrame ==
    UNCHANGED <<current_fp, current_path, bytes_written_uncompressed,
                rotate_due_flag, compress_threads, fsVars, loc, input, nread, nreq,
                tpc, metricVars, idleVars, histVars, hubVars, idleHist, timer_t,
                now, mtime, endVars>>

\* do_POST (539-544) calls apply_config(payload)
ConfigArrive(p) ==
    /\ srv_up
    /\ pc["http"] = "idle"
    /\ ncfg < MaxCfg
    /\ ncfg' = ncfg + 1
    /\ cfg_req' = p
    /\ cfg_resp' = NoResponse
    /\ cfg_old' = [compress |-> compress, retain |-> retain, max_bytes |-> max_bytes,
                   interval_s |-> interval_s, runtime_cfg |-> runtime_cfg,
                   rot |-> files_rotated_total, fp |-> current_fp, prefix |-> prefix]
    /\ pc' = [pc EXCEPT !["http"] = NextStage(p, 0)]
    /\ UNCHANGED <<compress, prefix, max_bytes, interval_s, rotate_after_this_line,
                   retain, runtime_cfg>>
    /\ ConfigFrame

\* 702-706: writer.retain = max(0, int(payload["retain"]))
ConfigRetain ==
    /\ pc["http"] = "cfg_retain"
    /\ retain' = Max(0, cfg_req.retain)
    /\ runtime_cfg' = [runtime_cfg EXCEPT !.retain = Max(0, cfg_req.retain)]
    /\ cfg_resp' = [cfg_resp EXCEPT !.updated = @ \cup {"retain"}]
    /\ pc' = [pc EXCEPT !["http"] = NextStage(cfg_req, 1)]
    /\ UNCHANGED <<compress, prefix, max_bytes, interval_s, rotate_after_this_line,
                   cfg_req, cfg_old, ncfg>>
    /\ ConfigFrame

\* 708-712: writer.max_bytes = parse_size_to_int(payload["max_bytes"]), which
\* is int(s) for a number (146-150)
ConfigMaxBytes ==
    /\ pc["http"] = "cfg_max_bytes"
    /\ max_bytes' = cfg_req.max_bytes
    /\ runtime_cfg' = [runtime_cfg EXCEPT !.max_bytes = cfg_req.max_bytes]
    /\ cfg_resp' = [cfg_resp EXCEPT !.updated = @ \cup {"max_bytes"}]
    /\ pc' = [pc EXCEPT !["http"] = NextStage(cfg_req, 2)]
    /\ UNCHANGED <<compress, prefix, interval_s, rotate_after_this_line, retain,
                   cfg_req, cfg_old, ncfg>>
    /\ ConfigFrame

\* 714-718: writer.interval_s = parse_interval_to_secs(payload["interval"])
ConfigInterval ==
    /\ pc["http"] = "cfg_interval"
    /\ interval_s' = cfg_req.interval
    /\ runtime_cfg' = [runtime_cfg EXCEPT !.interval_seconds = cfg_req.interval]
    /\ cfg_resp' = [cfg_resp EXCEPT !.updated = @ \cup {"interval_seconds"}]
    /\ pc' = [pc EXCEPT !["http"] = NextStage(cfg_req, 3)]
    /\ UNCHANGED <<compress, prefix, max_bytes, rotate_after_this_line, retain,
                   cfg_req, cfg_old, ncfg>>
    /\ ConfigFrame

\* the value of "prefix" in the requests that have one
NewPrefix == "trace"

\* 720-726: writer.prefix = str(payload["prefix"]), and a rotation is needed.
\* (out_dir, 728-734, is handled the same way; the model has one directory.)
ConfigPrefix ==
    /\ pc["http"] = "cfg_prefix"
    /\ prefix' = NewPrefix
    /\ runtime_cfg' = [runtime_cfg EXCEPT !.prefix = NewPrefix]
    /\ cfg_resp' = [cfg_resp EXCEPT !.updated = @ \cup {"prefix"}]
    /\ pc' = [pc EXCEPT !["http"] = NextStage(cfg_req, 4)]
    /\ UNCHANGED <<compress, max_bytes, interval_s, rotate_after_this_line, retain,
                   cfg_req, cfg_old, ncfg>>
    /\ ConfigFrame

\* (a compress field that is stored before it is validated)
ConfigCompressNoCheck ==
    /\ pc["http"] = "cfg_compress"
    /\ compress' = cfg_req.compress
    /\ runtime_cfg' = [runtime_cfg EXCEPT !.compress = cfg_req.compress]
    /\ IF cfg_req.compress \notin Modes
       THEN /\ cfg_resp' = [cfg_resp EXCEPT !.done = TRUE, !.ok = FALSE, !.code = 400]
            /\ pc' = [pc EXCEPT !["http"] = "idle"]
       ELSE /\ cfg_resp' = [cfg_resp EXCEPT !.updated = @ \cup {"compress"}]
            /\ pc' = [pc EXCEPT !["http"] = "cfg_flag"]
    /\ UNCHANGED <<prefix, max_bytes, interval_s, rotate_after_this_line, retain,
                   cfg_req, cfg_old, ncfg>>
    /\ ConfigFrame

\* 736-744: a compress value outside none/inline/after raises ValueError,
\* caught at 750-751: return False, str(e), updated; do_POST answers 400.
\* A valid one is stored and asks for a rotation.
ConfigCompress ==
    /\ pc["http"] = "cfg_compress"
    /\ IF cfg_req.compress \notin Modes
       THEN /\ cfg_resp' = [cfg_resp EXCEPT !.done = TRUE, !.ok = FALSE, !.code = 400]
            /\ pc' = [pc EXCEPT !["http"] = "idle"]
            /\ UNCHANGED <<compress, runtime_cfg>>
       ELSE /\ compress' = cfg_req.compress
            /\ runtime_cfg' = [runtime_cfg EXCEPT !.compress = cfg_req.compress]
            /\ cfg_resp' = [cfg_resp EXCEPT !.updated = @ \cup {"compress"}]
            /\ pc' = [pc EXCEPT !["http"] = "cfg_flag"]
    /\ UNCHANGED <<prefix, max_bytes, interval_s, rotate_after_this_line, retain,
                   cfg_req, cfg_old, ncfg>>
    /\ ConfigFrame

\* 746-749: rotate_now or a field that needs a new file sets
\* rotate_after_this_line; return True, "applied", updated.  Keys that
\* apply_config does not know, "cmd" among them, are not looked at.
ConfigFlag ==
    /\ pc["http"] = "cfg_flag"
    /\ rotate_after_this_line' =
          (rotate_after_this_line \/ "rotate_now" \in cfg_req.has
             \/ "prefix" \in cfg_resp.updated \/ "compress" \in cfg_resp.updated)
    /\ cfg_resp' = [cfg_resp EXCEPT !.done = TRUE, !.ok = TRUE, !.code = 200]
    /\ pc' = [pc EXCEPT !["http"] = "idle"]
    /\ UNCHANGED <<compress, prefix, max_bytes, interval_s, retain, runtime_cfg,
                   cfg_req, cfg_old, ncfg>>
    /\ ConfigFrame

\* the steps of apply_config after a request of Payloads has arrived
ConfigStep ==
    \/ ConfigRetain
    \/ ConfigMaxBytes
    \/ ConfigInterval
    \/ ConfigCompress
    \/ ConfigFlag

\* requests that change the prefix and the mode together; the second is
\* rejected for its mode
PolicyPayloads ==
    { Payload({"prefix", "compress"}, 0, 0, 0, "inline"),
      Payload({"prefix", "compress"}, 0, 0, 0, "bogus") }

\* the steps of apply_config after a request of PolicyPayloads has arrived
PolicyStep ==
    \/ ConfigPrefix
    \/ ConfigCompress
    \/ ConfigFlag

\* ------------------------------------------------------- _Handler._stream
\* A handler thread per connection c.  spc[c]: "none" (no request yet), "hdr",
\* "snap", "replay", "sub", "live", "fin" (the finally block), "done".
\* A write to the client's socket raises BrokenPipeError once the client has
\* closed the connection.

\* GET /stream or /stream?raw=1 arrives
StreamOpen(c, raw) ==
    /\ spc[c] = "none"
    /\ spc' = [spc EXCEPT ![c] = "hdr"]
    /\ sraw' = [sraw EXCEPT ![c] = raw]
    /\ UNCHANGED <<writerVars, fsVars, threadVars, metricVars, idleVars, histVars,
                   idleHist, cfgVars, endVars, ring, ring_cap, subs, queue, gone, replay,
                   streams_connected_total, streams_disconnected_total, streams_current,
                   published, recv, snap0, snapidx, enq, dropped, ncon, ndis>>

\* the client closes its end of the connection
ClientClose(c) ==
    /\ spc[c] \notin {"none", "done"}
    /\ ~gone[c]
    /\ gone' = [gone EXCEPT ![c] = TRUE]
    /\ UNCHANGED <<writerVars, fsVars, threadVars, metricVars, idleVars, histVars,
                   idleHist, cfgVars, endVars, ring, ring_cap, subs, queue, spc, sraw, replay,
                   streams_connected_total, streams_disconnected_total, streams_current,
                   published, recv, snap0, snapidx, enq, dropped, ncon, ndis>>

\* (a handler whose header write is inside the try block: a failure there
\* runs the finally block)
StreamHeadersInTry(c) ==
    /\ spc[c] = "hdr"
    /\ IF gone[c]
       THEN /\ spc' = [spc EXCEPT ![c] = "fin"]
            /\ UNCHANGED <<streams_connected_total, streams_current, ncon>>
       ELSE /\ spc' = [spc EXCEPT ![c] = "snap"]
            /\ streams_connected_total' = streams_connected_total + 1
            /\ streams_current' = streams_current + 1
            /\ ncon' = [ncon EXCEPT ![c] = @ + 1]
    /\ UNCHANGED <<writerVars, fsVars, threadVars, metricVars, idleVars, histVars,
                   idleHist, cfgVars, endVars, ring, ring_cap, subs, queue, sraw, gone, replay,
                   streams_disconnected_total, published, recv, snap0, snapidx, enq,
                   dropped, ndis>>

\* 573-589: the response headers, outside the try block, and
\* METRICS.stream_connected(); a failing write leaves the handler
StreamHeaders(c) ==
    /\ spc[c] = "hdr"
    /\ IF gone[c]
       THEN /\ spc' = [spc EXCEPT ![c] = "done"]
            /\ UNCHANGED <<streams_connected_total, streams_current, ncon>>
       ELSE /\ spc' = [spc EXCEPT ![c] = "snap"]
            /\ streams_connected_total' = streams_connected_total + 1
            /\ streams_current' = streams_current + 1
            /\ ncon' = [ncon EXCEPT ![c] = @ + 1]
    /\ UNCHANGED <<writerVars, fsVars, threadVars, metricVars, idleVars, histVars,
                   idleHist, cfgVars, endVars, ring, ring_cap, subs, queue, sraw, gone, replay,
                   streams_disconnected_total, published, recv, snap0, snapidx, enq,
                   dropped, ndis>>

\* 592: snapshot = STREAM_HUB.snapshot()
StreamSnapshot(c) ==
    /\ spc[c] = "snap"
    /\ replay' = [replay EXCEPT ![c] = ring]
    /\ snap0' = [snap0 EXCEPT ![c] = ring]
    /\ snapidx' = [snapidx EXCEPT ![c] = Len(published)]
    /\ spc' = [spc EXCEPT ![c] = IF ring = <<>> THEN "sub" ELSE "replay"]
    /\ UNCHANGED <<writerVars, fsVars, threadVars, metricVars, idleVars, histVars,
                   idleHist, cfgVars, endVars, ring, ring_cap, subs, queue, sraw, gone,
                   streams_connected_total, streams_disconnected_total, streams_current,
                   published, recv, enq, dropped, ncon, ndis>>

\* 593-607: one line of the replay is written to the client
StreamReplay(c) ==
    /\ spc[c] = "replay"
    /\ IF gone[c]
       THEN /\ spc' = [spc EXCEPT ![c] = "fin"]
            /\ UNCHANGED <<recv, replay>>
       ELSE /\ recv' = [recv EXCEPT ![c] = Append(@, Head(replay[c]))]
            /\ replay' = [replay EXCEPT ![c] = Tail(@)]
            /\ spc' = [spc EXCEPT ![c] = IF Tail(replay[c]) = <<>> THEN "sub" ELSE "replay"]
    /\ UNCHANGED <<writerVars, fsVars, threadVars, metricVars, idleVars, histVars,
                   idleHist, cfgVars, endVars, ring, ring_cap, subs, queue, sraw, gone,
                   streams_connected_total, streams_disconnected_total, streams_current,
                   published, snap0, snapidx, enq, dropped, ncon, ndis>>

\* 610: q = STREAM_HUB.subscribe(), after the replay
StreamSubscribe(c) ==
    /\ spc[c] = "sub"
    /\ subs' = subs \cup {c}
    /\ queue' = [queue EXCEPT ![c] = <<>>]
    /\ spc' = [spc EXCEPT ![c] = "live"]
    /\ UNCHANGED <<writerVars, fsVars, threadVars, metricVars, idleVars, histVars,
                   idleHist, cfgVars, endVars, ring, ring_cap, sraw, gone, replay,
                   streams_connected_total, streams_disconnected_total, streams_current,
                   published, recv, snap0, snapidx, enq, dropped, ncon, ndis>>

\* 613-631: q.get returns a line, which is written to the client
StreamLive(c) ==
    /\ spc[c] = "live"
    /\ queue[c] # <<>>
    /\ queue' = [queue EXCEPT ![c] = Tail(@)]
    /\ IF gone[c]
       THEN /\ spc' = [spc EXCEPT ![c] = "fin"]
            /\ UNCHANGED recv
       ELSE /\ recv' = [recv EXCEPT ![c] = Append(@, Head(queue[c]))]
            /\ UNCHANGED spc
    /\ UNCHANGED <<writerVars, fsVars, threadVars, metricVars, idleVars, histVars,
                   idleHist, cfgVars, endVars, ring, ring_cap, subs, sraw, gone, replay,
                   streams_connected_total, streams_disconnected_total, streams_current,
                   published, snap0, snapidx, enq, dropped, ncon, ndis>>

\* 632-636: q.get times out; in event-stream mode a heartbeat is written,
\* which fails once the client is gone.  In raw mode nothing is written, and
\* with the client still there the heartbeat changes no state.
StreamHeartbeat(c) ==
    /\ spc[c] = "live"
    /\ queue[c] = <<>>
    /\ ~sraw[c]
    /\ gone[c]
    /\ spc' = [spc EXCEPT ![c] = "fin"]
    /\ UNCHANGED <<writerVars, fsVars, threadVars, metricVars, idleVars, histVars,
                   idleHist, cfgVars, endVars, ring, ring_cap, subs, queue, sraw, gone, replay,
                   streams_connected_total, streams_disconnected_total, streams_current,
                   published, recv, snap0, snapidx, enq, dropped, ncon, ndis>>

\* 637-644: BrokenPipeError is swallowed; finally: unsubscribe(q) (q is unbound
\* before line 610, the NameError is swallowed) and stream_disconnected()
StreamFinally(c) ==
    /\ spc[c] = "fin"
    /\ subs' = subs \ {c}
    /\ streams_disconnected_total' = streams_disconnected_total + 1
    /\ streams_current' = Max(0, streams_current - 1)
    /\ ndis' = [ndis EXCEPT ![c] = @ + 1]
    /\ spc' = [spc EXCEPT ![c] = "done"]
    /\ UNCHANGED <<writerVars, fsVars, threadVars, metricVars, idleVars, histVars,
                   idleHist, cfgVars, endVars, ring, ring_cap, queue, sraw, gone, replay,
                   streams_connected_total, published, recv, snap0, snapidx, enq,
                   dropped, ncon>>

\* the steps of the handler threads
StreamStep ==
    \/ \E c \in Conns : StreamHeaders(c)
    \/ \E c \in Conns : StreamSnapshot(c)
    \/ \E c \in Conns : StreamReplay(c)
    \/ \E c \in Conns : StreamSubscribe(c)
    \/ \E c \in Conns : StreamLive(c)
    \/ \E c \in Conns : StreamHeartbeat(c)
    \/ \E c \in Conns : StreamFinally(c)

\* ---------------------------------------------------------------- shutdown
\* run() after stream_loop_lines has returned (1169-1170), in the thread of
\* the ingestion loop: a rotation that is pending is carried out
ShutRotate ==
    /\ pc["ing"] = "done"
    /\ pc' = [pc EXCEPT !["ing"] = IF rotate_after_this_line THEN "rotA" ELSE "sd_close"]
    /\ loc' = [loc EXCEPT !["ing"].ret = "sd_close"]
    /\ UNCHANGED <<writerVars, fsVars, input, nread, nreq, tpc, metricVars, idleVars,
                   histVars>>
    /\ UNCHANGED <<hubVars, idleHist, cfgVars, endVars>>

\* close_current(True), 1010-1020: the handle is closed and the fields are
\* cleared; path is a local
ShutClose ==
    /\ pc["ing"] = "sd_close"
    /\ hs' = IF current_fp # 0 THEN [hs EXCEPT ![current_fp].open = FALSE] ELSE hs
    /\ loc' = [loc EXCEPT !["ing"].old_path = current_path]
    /\ current_fp' = 0
    /\ current_path' = NoPath
    /\ bytes_written_uncompressed' = 0
    /\ pc' = [pc EXCEPT !["ing"] = "sd_move"]
    /\ UNCHANGED <<compress, prefix, max_bytes, interval_s, rotate_due_flag,
                   rotate_after_this_line, compress_threads, dir, content, rot_tick,
                   input, nread, nreq, tpc, metricVars, idleVars, histVars>>
    /\ UNCHANGED <<hubVars, idleHist, cfgVars, endVars>>

\* sort by st_mtime, newest first, and keep the first self.retain, over the
\* directory d
KeepNewest(d, files, keep) ==
    /\ keep \subseteq files
    /\ Cardinality(keep) = (IF retain <= Cardinality(files) THEN retain
                            ELSE Cardinality(files))
    /\ \A k \in keep : \A x \in files \ keep : mtime[d[k]] >= mtime[d[x]]

\* close_current(True), 1021-1032: a path that exists is renamed to a rotated
\* name (a failing rename is swallowed) and _prune_retention runs, here in the
\* calling thread.  tick is the clock reading of _make_rotated_name.
ShutMove(tick) ==
    /\ pc["ing"] = "sd_move"
    /\ LET path == loc["ing"].old_path
           ok == path # NoPath /\ Exists(dir, path)
           rotated_name == MakeRotatedName(path.gz, tick)
           dir1 == IF ok THEN Rename(dir, path, rotated_name) ELSE dir
           files == RotatedFiles(dir1)
       IN  /\ IF ok
              THEN \E keep \in SUBSET files :
                      /\ KeepNewest(dir1, files, keep)
                      /\ dir' = [x \in DOMAIN dir1 \ (files \ keep) |-> dir1[x]]
              ELSE dir' = dir
           /\ rotated' = IF ok
                         THEN Append(SelectSeq(rotated, LAMBDA r : r # rotated_name),
                                     rotated_name)
                         ELSE rotated
    /\ rot_tick' = tick
    /\ final_closed' = TRUE
    /\ loc' = [loc EXCEPT !["ing"].old_path = NoPath]
    /\ pc' = [pc EXCEPT !["ing"] = "sd_join"]
    /\ UNCHANGED <<writerVars, content, hs, input, nread, nreq, tpc, metricVars,
                   idleVars, written, period_markers, period_alerts, soft_mark, lowrot>>
    /\ UNCHANGED <<hubVars, idleHist, cfgVars, srv_up, idle_stopped, fmt>>

\* writer.stop() (1034-1038): every finalize thread is joined for at most two
\* seconds; run() goes on when they have ended or the time is up
ShutJoin ==
    /\ pc["ing"] = "sd_join"
    /\ pc' = [pc EXCEPT !["ing"] = "sd_srv"]
    /\ UNCHANGED <<writerVars, fsVars, loc, input, nread, nreq, tpc, metricVars,
                   idleVars, histVars>>
    /\ UNCHANGED <<hubVars, idleHist, cfgVars, endVars>>

\* srv.shutdown() (1174-1178): the listener takes no more requests
ShutServer ==
    /\ pc["ing"] = "sd_srv"
    /\ srv_up' = FALSE
    /\ pc' = [pc EXCEPT !["ing"] = "sd_idle"]
    /\ UNCHANGED <<writerVars, fsVars, loc, input, nread, nreq, tpc, metricVars,
                   idleVars, histVars>>
    /\ UNCHANGED <<hubVars, idleHist, cfgVars, idle_stopped, final_closed, fmt>>

\* idle_monitor.stop() (1179, 483-485): the timer is cancelled under the lock;
\* the threshold stays
ShutIdle ==
    /\ pc["ing"] = "sd_idle"
    /\ idle_timer' = -1
    /\ idle_stopped' = TRUE
    /\ pc' = [pc EXCEPT !["ing"] = "exit"]
    /\ UNCHANGED <<writerVars, fsVars, loc, input, nread, nreq, tpc, metricVars,
                   threshold, elapsed, histVars>>
    /\ UNCHANGED <<hubVars, idleHist, cfgVars, srv_up, final_closed, fmt>>

ShutStep ==
    \/ ShutRotate
    \/ ShutClose
    \/ \E tick \in {rot_tick, rot_tick + 1} \ {0} : ShutMove(tick)
    \/ ShutJoin
    \/ ShutServer
    \/ ShutIdle

\* ------------------------------------------------------------------- run()
\* The state when the ingestion loop starts (1107-1135): the writer has opened
\* its first file in an empty directory and the idle monitor is armed.
InitAll(c, mb, iv, th, inp, rs, rt) ==
    /\ compress = c
    /\ prefix = "capture"
    /\ max_bytes = mb
    /\ interval_s = iv
    /\ current_fp = 1
    /\ current_path = [k |-> "cur", pre |-> "capture", gz |-> (c = "inline"), t |-> 0]
    /\ bytes_written_uncompressed = 0
    /\ rotate_due_flag = FALSE
    /\ rotate_after_this_line = FALSE
    /\ compress_threads = {}
    /\ dir = ([k |-> "cur", pre |-> "capture", gz |-> (c = "inline"), t |-> 0] :> 1)
    /\ content = << <<>> >>
    /\ hs = <<[ino |-> 1, open |-> TRUE]>>
    /\ rot_tick = 0
    /\ pc = [t \in Threads |-> IF t = "ing" THEN "read" ELSE "idle"]
    /\ loc = [t \in Threads |-> [fp |-> 0, old_fp |-> 0, old_path |-> NoPath,
                                 ret |-> "idle", line |-> 0, n |-> 0, subs |-> {}]]
    /\ input = inp
    /\ nread = 0
    /\ nreq = 0
    /\ tpc = "sleep"
    /\ files_rotated_total = 0
    /\ idle_alerts_total = 0
    /\ idle_active = 0
    /\ threshold = th
    /\ idle_timer = IF th > 0 THEN th ELSE -1
    /\ elapsed = 0
    /\ written = <<>>
    /\ rotated = <<>>
    /\ period_markers = 0
    /\ period_alerts = 0
    /\ soft_mark = [set |-> FALSE, lines |-> 0, rot |-> 0, fp |-> 0]
    /\ lowrot = FALSE
    /\ longgap = FALSE
    /\ arm_hist = [set |-> FALSE, lines |-> 0, cb |-> "none"]
    /\ ring = <<>>
    /\ ring_cap = rs
    /\ subs = {}
    /\ queue = [x \in Conns |-> <<>>]
    /\ spc = [x \in Conns |-> "none"]
    /\ sraw = [x \in Conns |-> FALSE]
    /\ gone = [x \in Conns |-> FALSE]
    /\ replay = [x \in Conns |-> <<>>]
    /\ streams_connected_total = 0
    /\ streams_disconnected_total = 0
    /\ streams_current = 0
    /\ published = <<>>
    /\ recv = [x \in Conns |-> <<>>]
    /\ snap0 = [x \in Conns |-> <<>>]
    /\ snapidx = [x \in Conns |-> 0]
    /\ enq = [x \in Conns |-> <<>>]
    /\ dropped = [x \in Conns |-> FALSE]
    /\ ncon = [x \in Conns |-> 0]
    /\ ndis = [x \in Conns |-> 0]
    /\ retain = Max(0, rt)
    /\ runtime_cfg = [compress |-> c, retain |-> rt,
                      max_bytes |-> IF mb = NoneInt THEN 0 ELSE mb,
                      interval_seconds |-> iv, prefix |-> "capture"]
    /\ timer_t = (iv > 0)
    /\ cfg_req = NoRequest
    /\ cfg_resp = NoResponse
    /\ mtime = <<0>>
    /\ now = 0
    /\ ncfg = 0
    /\ cfg_old = NoOld
    /\ srv_up = TRUE
    /\ idle_stopped = FALSE
    /\ final_closed = FALSE
    /\ fmt = <<IF c = "inline" THEN "gzip" ELSE "plain">>

\* the default --retain 10
InitWith(c, mb, iv, th, inp, rs) == InitAll(c, mb, iv, th, inp, rs, RetainDefault)

WriterStep ==
    \/ \E t \in Threads : BeginLine(t)
    \/ \E t \in Threads : RotateA(t)
    \/ \E t \in Threads : RotateB(t)
    \/ \E t \in Threads : WriteCheck(t)
    \/ \E t \in Threads : WriteLoad(t)
    \/ \E t \in Threads : WriteFile(t)
    \/ \E t \in Threads : WritePost(t)
    \/ \E f \in compress_threads : FinalizeClose(f)
    \/ \E f \in compress_threads : \E tick \in {rot_tick, rot_tick + 1} \ {0} :
           FinalizeMove(f, tick)

\* _prune_retention in the finalize threads
PruneStep ==
    \/ \E f \in compress_threads : FinalizeList(f)
    \/ \E f \in compress_threads : \E keep \in SUBSET f.files : FinalizePrune(f, keep)

\* cmd_logger.py -m -s 4 -t 1 -z <mode>: ingestion, the HTTP control plane and
\* the interval timer; lines of two bytes, so the second line reaches max_bytes.
Init == \E c \in Modes : InitWith(c, 4, 1, 0, [i \in 1..MaxLines |-> 2], 2)

Next ==
    \/ IngRead
    \/ IngEof
    \/ WriterStep
    \/ RotateNowSoft
    \/ RotateNowHard
    \/ \E cv \in Modes : ApplyConfigCompress(cv)
    \/ ApplyConfigFlag
    \/ TimerDue
    \/ TimerAfter

Spec == Init /\ [][Next]_vars

Ids(s) == [j \in 1..Len(s) |-> s[j].id]

\* cmd_logger.py -s 100 -z <mode> on five lines of 30 bytes and a newline: no
\* HTTP server, no interval timer, no idle alert.
InitSeq == \E c \in Modes : InitWith(c, 100, 0, 0, [i \in 1..5 |-> 31], 2)

NextSeq ==
    \/ IngRead
    \/ IngEof
    \/ WriterStep

SpecSeq == InitSeq /\ [][NextSeq]_vars

\* cmd_logger.py -s 28 -I 1 (or -I 1.5): ingestion and the idle monitor; each
\* line, like the marker, has 14 bytes, so every second write reaches max_bytes.
InitIdle ==
    \E th \in {TicksPerSec, TicksPerSec + 1} :
        InitWith("none", 2 * MarkerBytes, 0, th, [i \in 1..MaxLines |-> MarkerBytes], 2)

NextIdle ==
    \/ IngRead
    \/ IngEof
    \/ WriterStep
    \/ Tick
    \/ TimerExpire
    \/ Fire

SpecIdle == InitIdle /\ [][NextIdle]_vars

\* begin_line/write_line of a writer that never rotates (no max_bytes, no
\* interval, no rotate request)
LineStep ==
    \/ \E t \in Threads : BeginLine(t)
    \/ \E t \in Threads : WriteCheck(t)
    \/ \E t \in Threads : WriteLoad(t)
    \/ \E t \in Threads : WriteFile(t)
    \/ \E t \in Threads : WritePost(t)

\* cmd_logger.py -m -I 1 (or -I 1.5): ingestion, the idle monitor and
\* POST /config {"idle_alert_secs": v}
InitArm ==
    \E th \in {TicksPerSec, TicksPerSec + 1} :
        InitWith("none", NoneInt, 0, th, [i \in 1..MaxLines |-> 2], 2)

NextArm ==
    \/ IngRead
    \/ IngEof
    \/ LineStep
    \/ Tick
    \/ TimerExpire
    \/ Fire
    \/ \E v \in {0, TicksPerSec, TicksPerSec + 1} : ArmConfig(v)

SpecArm == InitArm /\ [][NextArm]_vars

\* cmd_logger.py -m --ring-size 2: ingestion publishes to the hub, /stream
\* connections come and go, POST /config {"ring_size": n}
InitHub == InitWith("none", NoneInt, 0, 0, [i \in 1..MaxLines |-> 2], 2)

NextHub ==
    \/ IngRead
    \/ IngEof
    \/ LineStep
    \/ \E t \in Threads : WritePut(t)
    \/ \E c \in Conns : \E raw \in BOOLEAN : StreamOpen(c, raw)
    \/ \E c \in Conns : ClientClose(c)
    \/ StreamStep
    \/ \E n \in 0..3 : SetRingSize(n)

SpecHub == InitHub /\ [][NextHub]_vars

\* cmd_logger.py -m -I 1 --ring-size 2: two publishers, the ingestion thread
\* and the idle monitor's timer thread, and /stream connections that stay open
InitPub == InitWith("none", NoneInt, 0, TicksPerSec, [i \in 1..MaxLines |-> 2], 2)

NextPub ==
    \/ IngRead
    \/ IngEof
    \/ LineStep
    \/ \E t \in Threads : WritePut(t)
    \/ Tick
    \/ TimerExpire
    \/ Fire
    \/ \E c \in Conns : \E raw \in BOOLEAN : StreamOpen(c, raw)
    \/ \E c \in Conns : StreamHeaders(c)
    \/ \E c \in Conns : StreamSnapshot(c)
    \/ \E c \in Conns : StreamReplay(c)
    \/ \E c \in Conns : StreamSubscribe(c)
    \/ \E c \in Conns : StreamLive(c)

SpecPub == InitPub /\ [][NextPub]_vars

\* cmd_logger.py -m -s 4 -t 1 -r 2: ingestion, the interval timer and POST
\* /config
InitCfg == InitAll("none", 4, 1, 0, [i \in 1..MaxLines |-> 2], 2, 2)

NextCfg ==
    \/ IngRead
    \/ IngEof
    \/ WriterStep
    \/ PruneStep
    \/ \E p \in Payloads : ConfigArrive(p)
    \/ ConfigStep
    \/ TimerDue
    \/ TimerAfter

SpecCfg == InitCfg /\ [][NextCfg]_vars

\* cmd_logger.py -s 2 -r 1 on lines of two bytes: every line reaches
\* max_bytes; the finalize threads prune; the file system clock moves
InitRet == InitAll("none", 2, 0, 0, [i \in 1..MaxLines + 1 |-> 2], 2, 1)

NextRet ==
    \/ IngRead
    \/ IngEof
    \/ WriterStep
    \/ PruneStep
    \/ ClockTick

SpecRet == InitRet /\ [][NextRet]_vars

\* cmd_logger.py -m on a source of MaxLines lines: ingestion, POST /rotate
\* (soft and hard) and the shutdown of run()
InitShut == InitAll("none", NoneInt, 0, 0, [i \in 1..MaxLines |-> 2], 2, RetainDefault)

NextShut ==
    \/ IngRead
    \/ IngEof
    \/ WriterStep
    \/ RotateNowSoft
    \/ RotateNowHard
    \/ ShutStep

SpecShut == InitShut /\ [][NextShut]_vars

\* cmd_logger.py -I 1 (or -I 1.5) on a source of one line: ingestion, the idle
\* monitor and the shutdown of run(); nothing asks for a rotation
InitStop ==
    \E th \in {TicksPerSec, TicksPerSec + 1} :
        InitAll("none", NoneInt, 0, th, <<2>>, 2, RetainDefault)

NextStop ==
    \/ IngRead
    \/ IngEof
    \/ LineStep
    \/ Tick
    \/ TimerExpire
    \/ Fire
    \/ ShutStep

SpecStop == InitStop /\ [][NextStop]_vars

\* cmd_logger.py -t 1: ingestion and the interval timer, which is the only
\* thing that asks for a rotation; nreq counts its expiries
InitOne == InitAll("none", NoneInt, 1, 0, [i \in 1..MaxLines + 1 |-> 2], 2, RetainDefault)

NextOne ==
    \/ IngRead
    \/ IngEof
    \/ WriterStep
    \/ TimerDue
    \/ TimerAfter

SpecOne == InitOne /\ [][NextOne]_vars

\* cmd_logger.py -m -s 2: ingestion of lines of two bytes, so that every line
\* boundary rotates, and a POST /config that changes prefix and compress
InitPol == InitAll("none", 2, 0, 0, [i \in 1..MaxLines |-> 2], 2, RetainDefault)

NextPol ==
    \/ IngRead
    \/ IngEof
    \/ WriterStep
    \/ \E p \in PolicyPayloads : ConfigArrive(p)
    \/ PolicyStep

SpecPol == InitPol /\ [][NextPol]_vars

\* cmd_logger.py -s 2 -z after: ingestion of lines of two bytes, so that
\* every line boundary rotates; the compression or the rename of a
\* finalization may fail
FailStep ==
    \E f \in compress_threads : \E tick \in {rot_tick, rot_tick + 1} \ {0} :
        \E gzFail, mvFail \in BOOLEAN : FinalizeMoveFail(f, tick, gzFail, mvFail)

InitFail == InitAll("after", 2, 0, 0, [i \in 1..MaxLines + 1 |-> 2], 2, RetainDefault)

NextFail ==
    \/ IngRead
    \/ IngEof
    \/ WriterStep
    \/ FailStep

SpecFail == InitFail /\ [][NextFail]_vars

\* The threads are scheduled: an enabled step of a handler or of a write is
\* taken, and the end of input is acted on. Input lines and client actions
\* come when they come.
SpecHubFair ==
    /\ SpecHub
    /\ WF_vars(StreamStep)
    /\ WF_vars(LineStep \/ \E t \in Threads : WritePut(t))
    /\ WF_vars(IngEof)

\* ------------------------------------------------------------- properties
\* The lines of the file a path names; nothing when the name is absent.
FileAt(p) == IF Exists(dir, p) THEN content[dir[p]] ELSE <<>>

RECURSIVE ConcatFiles(_)
ConcatFiles(ps) == IF ps = <<>> THEN <<>> ELSE FileAt(Head(ps)) \o ConcatFiles(Tail(ps))

\* The bytes of line id: a source line, or the idle marker (id 0)
LineBytes(id) == IF id = 0 THEN MarkerBytes ELSE input[id]

\* Every finalize thread has ended and no thread is inside an operation.
AllSettled ==
    /\ compress_threads = {}
    /\ pc["ing"] \in {"read", "done"}
    /\ pc["http"] = "idle"
    /\ pc["idle"] = "idle"

\* C1: once all finalize threads have ended, the rotated files in
\* finalization order followed by the active file hold exactly the lines
\* written, in order.
C1_ContentPreserved ==
    AllSettled => Ids(ConcatFiles(rotated) \o FileAt(current_path)) = Ids(written)

\* C2: a file under a rotated name keeps its content from then on.
C2_FinalizedImmutable ==
    [][\A p \in DOMAIN dir :
          (p.k = "rot" /\ p \in DOMAIN dir') => content'[dir'[p]] = content[dir[p]]]_vars

\* C3: when rotate() returns, the file of the new active handle is empty and
\* bytes_written_uncompressed is 0.
C3_FreshAfterRotate ==
    [][\A t \in Threads :
          (pc[t] \in {"rotA", "rotB"} /\ pc'[t] \notin {"rotA", "rotB"})
             => (content'[hs'[current_fp'].ino] = <<>>
                 /\ bytes_written_uncompressed' = 0)]_vars

\* C4: begin_line rotates only when bytes_written_uncompressed has reached
\* max_bytes.
C4_RotateOnlyAtMaxBytes == ~lowrot

\* C5: five lines of 31 bytes under max_bytes = 100: one rotation, after the
\* 4th line; the rotated file holds lines 1 to 4 and the active file line 5.
C5_FourThenOne ==
    (pc["ing"] = "done" /\ compress_threads = {}) =>
        /\ files_rotated_total = 1
        /\ written[4].rot = 0
        /\ written[5].rot = 1
        /\ Len(rotated) = 1
        /\ Ids(FileAt(rotated[1])) = <<1, 2, 3, 4>>
        /\ Ids(FileAt(current_path)) = <<5>>

\* C6: every line lies whole in one file: no file holds a part of a line.
C6_LinesWhole ==
    \A i \in 1..Len(content) : \A j \in 1..Len(content[i]) :
        content[i][j].n = LineBytes(content[i][j].id)

\* Lines were written through different handles, with a rotation in between,
\* and the directory holds more than one file.
C6_Witness ==
    /\ Len(written) >= 2
    /\ written[1].h # written[2].h
    /\ Cardinality(DOMAIN dir) >= 2

C8_HardRotateExcludesWrites ==
    [][written' # written => pc["http"] # "rotB"]_vars

\* C9: write_line never finds current_fp None after its check, never raises,
\* and never writes through a handle that a rotation has replaced or closed.
C9_WriteNeverRaces ==
    /\ pc["ing"] # "crashed"
    /\ pc["ing"] = "wwrite" =>
          (loc["ing"].fp = current_fp /\ hs[loc["ing"].fp].open)

\* C10: in one idle period at most one marker is written and
\* idle_alerts_total grows by at most one.
C10_OneMarkerPerIdlePeriod == period_markers <= 1 /\ period_alerts <= 1

\* A step in which the marker line is written to the file.
MarkerWritten == written' # written /\ written'[Len(written')].id = 0

\* C11: the poke of the marker's own write_line leaves the timer unarmed and
\* the last-activity time as it was.
C11_MarkerDoesNotRearm ==
    [][(pc["idle"] = "wpost" /\ pc'["idle"] # "wpost")
          => (idle_timer' = idle_timer /\ elapsed' = elapsed)]_vars

\* C12: _fire emits the marker only when at least the threshold has passed
\* since the last poke, and only in a run in which some gap reached the
\* threshold; a callback that finds less elapsed emits nothing.
C12_NoMarkerWithinThreshold ==
    [][(pc["idle"] = "fcheck" /\ pc'["idle"] = "begin")
          => (elapsed >= threshold /\ longgap)]_vars

\* The callback is in flight and a poke has moved the last-activity time.
C12_Witness == pc["idle"] = "fcheck" /\ elapsed < threshold /\ RealLines >= 1

\* C13: while the threshold is 0 no timer is outstanding and no marker is
\* written.
C13_DisabledStaysSilent ==
    [][threshold = 0 => (idle_timer' = -1 /\ ~MarkerWritten)]_vars

\* C14: after arm(T') the callback of the cancelled timer writes no marker,
\* and the callback of the new timer, finding T' elapsed, emits the marker.
C14_ArmReinstallsTimer ==
    [][/\ MarkerWritten => arm_hist.cb # "old"
       /\ (pc["idle"] = "fcheck" /\ arm_hist.cb = "new" /\ threshold > 0
             /\ elapsed >= threshold) => pc'["idle"] # "idle"]_vars

\* ----------------------------------------------------- sequences of lines
IsPrefix(a, b) == Len(a) <= Len(b) /\ SubSeq(b, 1, Len(a)) = a

IsSuffix(a, b) == Len(a) <= Len(b) /\ SubSeq(b, Len(b) - Len(a) + 1, Len(b)) = a

\* a is b with some elements left out
RECURSIVE IsSubseq(_, _)
IsSubseq(a, b) ==
    IF a = <<>> THEN TRUE
    ELSE IF b = <<>> THEN FALSE
    ELSE IF Head(a) = Head(b) THEN IsSubseq(Tail(a), Tail(b))
    ELSE IsSubseq(a, Tail(b))

\* C15: what a connection has received is, as long as its queue never filled,
\* a prefix of its ring snapshot followed by every line published after the
\* snapshot; the snapshot holds the lines published last before it.
C15_ReplayThenLive ==
    \A c \in Conns :
        /\ IsSuffix(snap0[c], SubSeq(published, 1, snapidx[c]))
        /\ ~dropped[c] =>
              IsPrefix(recv[c],
                       snap0[c] \o SubSeq(published, snapidx[c] + 1, Len(published)))

\* C16: publish never raises, the ring holds the lines published last, and
\* what a subscriber receives, with or without drops, is a subsequence of the
\* published sequence.
C16_PublishNeverFails ==
    /\ pc["ing"] # "crashed"
    /\ ring = LastN(published, ring_cap)
    /\ \A c \in Conns : IsSubseq(recv[c], published)

\* C17: the lines enqueued to a subscriber's queue are in ring-append order.
C17_EnqueueOrderIsRingOrder == \A c \in Conns : IsSubseq(enq[c], published)

\* C18: streams_current is connected minus disconnected and never negative; a
\* connection counts at most one connect and no more disconnects than
\* connects; a handler that has ended has counted its disconnect if it
\* counted a connect, and its queue is not registered.
C18_CleanupOnce ==
    /\ streams_current = streams_connected_total - streams_disconnected_total
    /\ streams_current >= 0
    /\ \A c \in Conns :
          /\ ncon[c] <= 1
          /\ ndis[c] <= ncon[c]
          /\ spc[c] = "done" => (c \notin subs /\ ndis[c] = ncon[c])

\* C18 as stated: every connection that has ended, the header write included,
\* has counted one connect and one disconnect.
C18_EveryEndCountsOnce ==
    \A c \in Conns : spc[c] = "done" => (ncon[c] = 1 /\ ndis[c] = 1)

\* A handler has ended after it delivered lines, and has been counted out.
C18_Witness == \E c \in Conns : spc[c] = "done" /\ ndis[c] = 1 /\ recv[c] # <<>>

\* C19: after the client has gone, the handler ends and its queue is
\* unsubscribed, unless the program itself ends first.
C19_EventuallyDeregistered ==
    \A c \in Conns :
        gone[c] ~> ((spc[c] = "done" /\ c \notin subs) \/ pc["ing"] = "done")

\* C20: a resize to n >= 1 leaves the last min(n, length) lines of the ring,
\* in order; at every step the ring is the tail of the published sequence
\* within its capacity, and every snapshot taken is a block of consecutive
\* published lines.
C20_ResizeKeepsTail ==
    [][/\ nreq' # nreq =>
             /\ ring_cap' >= 1
             /\ ring' = LastN(ring, ring_cap')
             /\ Len(ring') = Min(ring_cap', Len(ring))
       /\ IsSuffix(ring', published')
       /\ Len(ring') <= ring_cap'
       /\ \A c \in Conns : IsSuffix(snap0'[c], SubSeq(published', 1, snapidx'[c]))]_vars

\* The ring was cut to one line, the last of two or more published.
C20_Witness ==
    /\ nreq = 1
    /\ ring_cap = 1
    /\ Len(published) >= 2
    /\ ring = <<published[Len(published)]>>

\* ------------------------------------------------ retention and file names
\* The place of name x in the sequence of finalizations, 0 when it is not there
Pos(seq, x) ==
    IF \E j \in 1..Len(seq) : seq[j] = x
    THEN CHOOSE j \in 1..Len(seq) : seq[j] = x
    ELSE 0

\* C21: the rotated files of the prefix are never more than retain; checked
\* where the claim is weakest, in the states in which no finalize task runs.
C21_RetainBound ==
    compress_threads = {} => Cardinality(RotatedFiles(dir)) <= retain

\* C22: when a prune deletes files, no deleted file was finalized later than
\* a file of its listing that it keeps.
C22_KeepsLatestFinalized ==
    [][\A f \in compress_threads :
          (f.st = "prune" /\ f \notin compress_threads') =>
              \A d \in f.files \ DOMAIN dir' : \A k \in f.files \cap DOMAIN dir' :
                  d \in DOMAIN dir => Pos(rotated, d) < Pos(rotated, k)]_vars

\* C23: finalizing never overwrites a rotated file: a rotated name that is
\* still there after a step names the file it named before the step.
C23_RotatedNamesDistinct ==
    [][\A p \in DOMAIN dir :
          (p.k = "rot" /\ p \in DOMAIN dir') => dir'[p] = dir[p]]_vars

\* ------------------------------------------------------------ apply_config
\* C24: a request whose compress value is not a mode is answered ok=false
\* with status 400, and writer.compress and runtime_cfg["compress"] are what
\* they were when it arrived.
C24_BogusCompressRejected ==
    (cfg_resp.done /\ "compress" \in cfg_req.has /\ cfg_req.compress \notin Modes) =>
        /\ ~cfg_resp.ok
        /\ cfg_resp.code = 400
        /\ compress = cfg_old.compress
        /\ runtime_cfg.compress = cfg_old.runtime_cfg.compress

\* A request with a bogus compress value has been answered.
C24_Witness ==
    cfg_resp.done /\ "compress" \in cfg_req.has /\ cfg_req.compress \notin Modes

\* C25: a request that is answered ok=false has changed nothing, one that is
\* answered ok=true has stored every field it has.
C25_AllOrNothing ==
    cfg_resp.done =>
        IF cfg_resp.ok
        THEN /\ "retain" \in cfg_req.has => retain = Max(0, cfg_req.retain)
             /\ "max_bytes" \in cfg_req.has => max_bytes = cfg_req.max_bytes
             /\ "interval" \in cfg_req.has => interval_s = cfg_req.interval
             /\ "compress" \in cfg_req.has => compress = cfg_req.compress
        ELSE /\ retain = cfg_old.retain
             /\ max_bytes = cfg_old.max_bytes
             /\ interval_s = cfg_old.interval_s
             /\ compress = cfg_old.compress
             /\ runtime_cfg = cfg_old.runtime_cfg

\* C26: a request with a negative retain is answered ok=false, and
\* writer.retain and runtime_cfg["retain"] are what they were.
C26_NegativeRetainRejected ==
    (cfg_resp.done /\ "retain" \in cfg_req.has /\ cfg_req.retain < 0) =>
        /\ ~cfg_resp.ok
        /\ retain = cfg_old.retain
        /\ runtime_cfg.retain = cfg_old.runtime_cfg.retain

\* C27: a request that has a cmd field is answered ok=false.  (No step of the
\* program writes the command.)
C27_CommandRejected ==
    (cfg_resp.done /\ "cmd" \in cfg_req.has) => ~cfg_resp.ok

\* C28: while max_bytes is 0, a write_line that returns sets
\* rotate_after_this_line only when the interval is due.
C28_ZeroMaxBytesDisables ==
    [][(/\ max_bytes = 0
        /\ \E t \in Threads : pc[t] \in {"wpost", "wput"} /\ pc'[t] = AfterWrite(t)
        /\ rotate_after_this_line') =>
           (rotate_after_this_line \/ rotate_due_flag)]_vars

\* C29: while interval_s is 0 no step sets rotate_due_flag.
C29_ZeroIntervalDisables ==
    [][interval_s = 0 => ~(rotate_due_flag' /\ ~rotate_due_flag)]_vars

\* C30: when apply_config returns from a request with rotate_now, a rotation
\* has taken place since the request arrived and a new file is open.
C30_RotateNowRotates ==
    [][(/\ pc["http"] = "cfg_flag"
        /\ pc'["http"] = "idle"
        /\ "rotate_now" \in cfg_req.has) =>
           (files_rotated_total' > cfg_old.rot /\ current_fp' \notin {0, cfg_old.fp})]_vars

\* ---------------------------------------------------------------- shutdown
\* C31: the steps of the shutdown come in the order of the contract: the
\* idle timer is stopped only after the active file has been finalized, and
\* the HTTP listener is stopped only after the idle timer has been stopped.
C31_ShutdownOrder ==
    /\ final_closed => pc["ing"] \in {"sd_join", "sd_srv", "sd_idle", "exit"}
    /\ idle_stopped => final_closed
    /\ ~srv_up => idle_stopped

\* C32: with failing compressions and renames, no step destroys what a file
\* of the directory holds: the content of a file that has a name stays, or
\* grows at its end.
C32_FailureKeepsContent ==
    [][\A i \in 1..Len(content) :
          (\E p \in DOMAIN dir : dir[p] = i) => IsPrefix(content[i], content'[i])]_vars

\* C33: the timer that self._timer refers to is the only one that can be
\* outstanding (started, not cancelled, not fired); idle_timer >= 0 says that
\* it is.  There is none after stop() and none while the threshold is 0, and
\* there is one while the monitor is armed and no callback runs.
C33_OneOutstandingTimer ==
    /\ idle_stopped => idle_timer < 0
    /\ threshold <= 0 => idle_timer < 0
    /\ (threshold > 0 /\ ~idle_stopped /\ pc["idle"] = "idle") => idle_timer >= 0

\* Thread t has passed the check of begin_line and has not returned from
\* write_line.
InLine(t) == pc[t] \in {"rotA", "rotB", "wcheck", "wload", "wwrite", "wpost", "wput"}

\* C34: the marker line of the idle callback and a line of the ingestion
\* thread are never inside begin_line/write_line at the same time.
C34_MarkerExcludesIngestion == ~(InLine("ing") /\ InLine("idle"))

\* C35: the expiries of the interval timer being the only triggers, there
\* are never more rotations than expiries.
C35_OneRotationPerTrigger == files_rotated_total <= nreq

\* C36: the write_line of the marker leaves idle_active at 1.
C36_MarkerKeepsIdleActive ==
    [][(pc["idle"] = "wpost" /\ pc'["idle"] # "wpost" /\ idle_active = 1) =>
           idle_active' = 1]_vars

\* C37: after a request that changes prefix and compress together, every
\* active file is named after the old prefix and the old mode, or after the
\* new prefix and the new mode.
C37_NoMixedPolicy ==
    ({"prefix", "compress"} \subseteq cfg_req.has /\ cfg_req.compress \in Modes) =>
        \A p \in DOMAIN dir : p.k = "cur" =>
            \/ p.pre = cfg_old.prefix /\ p.gz = (cfg_old.compress = "inline")
            \/ p.pre = NewPrefix /\ p.gz = (cfg_req.compress = "inline")

\* C38: a rotated file has the data format that its name says: gzip data
\* under a name that ends in .log.gz, plaintext under one that ends in .log.
C38_NameTellsFormat ==
    \A p \in DOMAIN dir : p.k = "rot" => (p.gz <=> fmt[dir[p]] = "gzip")

\* C39: when no apply_config is running and the active file does not have
\* the name that the prefix and the mode of the writer give, a rotation is
\* pending.
C39_PolicyChangePendsRotation ==
    (pc["http"] = "idle" /\ current_fp # 0 /\ current_path # MakeCurrentPath) =>
        rotate_after_this_line

\* C40: once close_current(True) of the shutdown has run, no step leaves the
\* writer with an open file and no step writes a line.
C40_NoReopenAfterClose ==
    [][final_closed => (current_fp' = 0 /\ written' = written)]_vars

====
